---- MODULE Spec2Model ----
(***************************************************************************)
(* Model of the DCB subscription renewal pipeline                          *)
(* (Rifat79/nest.js-renewal-service).                                      *)
(*                                                                         *)
(* Time is counted in whole hours since 00:00 UTC of the first day.  The   *)
(* daily dispatch, the operator workers, the result consumer, the          *)
(* notification publisher and the fallback retrier are modelled from the   *)
(* source.  The queue library (BullMQ), Redis, the relational store and    *)
(* the AMQP broker are the environment: their failures are inputs of the   *)
(* actions that call them.  A handler body (charge, re-queue, ledger push) *)
(* lasts seconds, so the clock does not advance while a handler, a         *)
(* dispatch run or a drain is under way.                                   *)
(***************************************************************************)
EXTENDS Integers, Sequences, FiniteSets, TLC

(* ------------------------------ bounds --------------------------------- *)
NumSubs == 2
MaxTime == 44
MaxCharges == 3
(* number of environment faults (store, queue, Redis or gateway errors)    *)
(* injected along one behaviour                                            *)
MaxFaults == 1
(* outcomes on the ledger when the notification path is studied alone *)
MaxLedger == 2
(* page size of the dispatcher (10000 in the source), scaled down so that  *)
(* a run has more than one page                                            *)
BATCH_SIZE == 1
(* drain size of the result consumer (250 in the source), scaled down so   *)
(* that a drain can hit the cap                                            *)
MAX_BATCH_SIZE == 2
(* invocations of the result consumer's cron handler that are followed     *)
(* through their awaits                                                    *)
MaxDrains == 2
(* largest billing_cycle_days tried on the GP subscription_period mapping *)
MaxCycleDays == 366
(* connection drops followed on the broker connection *)
MaxDrops == 1
(* calls of publishMessage followed through their retries *)
MaxPublishes == 2

(* -------------------------- program constants -------------------------- *)
HoursPerDay == 24
(* EVERY_DAY_AT_1AM in Asia/Dhaka (UTC+6) is 19:00 UTC *)
CronHourUTC == 19
(* UTC offsets of the zone the process runs in (Date.setHours is local):   *)
(* Asia/Dhaka, and a zone in which the dispatched jobs fall due at 15:00   *)
(* and 16:00 local time                                                    *)
TzDhaka == 6
TzOffsets == {TzDhaka, -4}
RequeueHours == 8
maxFallbackRetries == 5

Nil == -1
SubIds == 1..NumSubs

RENEWAL_QUEUES == [GP |-> "renewal_gp", ROBI |-> "renewal_robi", ROBI_MIFE |-> "renewal_robi_mife"]

(* the rows the store can hold at start: operator, config, cycle, due hour *)
(* (the ids of a table take their profiles in increasing order)            *)
Profiles ==
  << [code |-> "GP",        hasConfig |-> TRUE,  cycle |-> 1,  nba |-> 20, auto_renew |-> TRUE,  status |-> "ACTIVE"],
     [code |-> "GP",        hasConfig |-> FALSE, cycle |-> 30, nba |-> 2,  auto_renew |-> TRUE,  status |-> "SUSPENDED_PAYMENT_FAILED"],
     [code |-> "ROBI",      hasConfig |-> TRUE,  cycle |-> 30, nba |-> 20, auto_renew |-> TRUE,  status |-> "ACTIVE"],
     [code |-> "ROBI",      hasConfig |-> FALSE, cycle |-> 1,  nba |-> 20, auto_renew |-> TRUE,  status |-> "ACTIVE"],
     [code |-> "BKASH",     hasConfig |-> TRUE,  cycle |-> 30, nba |-> 20, auto_renew |-> TRUE,  status |-> "ACTIVE"],
     [code |-> "ROBI_MIFE", hasConfig |-> TRUE,  cycle |-> 7,  nba |-> 22, auto_renew |-> TRUE,  status |-> "ACTIVE"],
     [code |-> "GP",        hasConfig |-> TRUE,  cycle |-> 30, nba |-> 20, auto_renew |-> FALSE, status |-> "ACTIVE"] >>

VARIABLES
  now,          \* wall clock, hours since day 0 00:00 UTC
  tz,           \* UTC offset of the process's local zone, hours
  faults,       \* environment faults injected so far
  subs,         \* subscriptions table: id -> row
  cursor,       \* RenewalScheduler.cursor (Nil = undefined)
  dpc,          \* position of handleCron: "idle" or "loop"
  lastCron,     \* hour at which the cron last fired
  run,          \* record of the current / last dispatch run
  jobs,         \* jobs held by the operator queues
  nextJob,      \* next auto-generated job id
  nextRef,      \* next payment_reference_id (uuid)
  lastJob,      \* record of the last worker handler invocation
  owed,         \* subscriptions whose job ended unpaid and without re-queue
  ledger,       \* Redis list renewal_status_report
  billing,      \* billing_events table (append only)
  popped,       \* payment references popped from the ledger so far
  lastDrain,    \* record of the last drain of the result consumer
  drains,       \* invocations of handleResultQueue followed step by step
  handed,       \* notifications handed to the publisher so far
  nextNotif,    \* next notification id (uuid)
  acked,        \* notification ids acknowledged by the broker, in order
  fallback,     \* Redis keys notification:fallback:<id> -> retryCount
  permFailed,   \* ids deleted from the fallback at the retry cap
  resent,       \* ids published by the fallback retrier
  broker,       \* RabbitMQProducerService: connection, channel, liveness
  rmq           \* RabbitMQProducerService: reconnect counters, timers, publish call

vars == << now, tz, faults, subs, cursor, dpc, lastCron, run, jobs, nextJob, nextRef, lastJob,
           owed, ledger, billing, popped, lastDrain, drains, handed, nextNotif, acked,
           fallback, permFailed, resent, broker, rmq >>

dispVars == << cursor, dpc, lastCron, run >>
workVars == << nextRef, lastJob >>
consVars == << billing, popped, lastDrain, drains >>
notifVars == << handed, nextNotif, acked, fallback, permFailed, resent >>

(* ------------------------------ helpers -------------------------------- *)
B2N(b) == IF b THEN 1 ELSE 0

(* the environment may still inject n faults *)
MayFail(n) == faults + n <= MaxFaults

Min(a, b) == IF a <= b THEN a ELSE b

Range(s) == { s[i] : i \in DOMAIN s }

RECURSIVE SortedSeq(_)
SortedSeq(S) ==
  IF S = {} THEN << >>
  ELSE LET m == CHOOSE x \in S : \A y \in S : x <= y
       IN << m >> \o SortedSeq(S \ {m})

Take(s, n) == SubSeq(s, 1, Min(n, Len(s)))

(* ------------------------ subscription store --------------------------- *)
Row(i, p) ==
  [ id |-> i, subscription_id |-> i, status |-> p.status, auto_renew |-> p.auto_renew,
    next_billing_at |-> p.nba, code |-> p.code, hasConfig |-> p.hasConfig,
    cycle |-> p.cycle, succeed_at |-> Nil, failed_at |-> Nil ]

(* `cursor && {...}`: the id filter applies only to a truthy cursor *)
Truthy(c) == c # Nil /\ c # 0

TodayStart(t) == (t \div HoursPerDay) * HoursPerDay

TodayEnd(t) == TodayStart(t) + HoursPerDay - 1

Renewable_noCursor(r, t, c) ==
  /\ r.auto_renew
  /\ r.status \in {"ACTIVE", "SUSPENDED_PAYMENT_FAILED"}
  /\ r.next_billing_at >= TodayStart(t)
  /\ r.next_billing_at <= TodayEnd(t)

Renewable(r, t, c) ==
  /\ r.auto_renew
  /\ r.status \in {"ACTIVE", "SUSPENDED_PAYMENT_FAILED"}
  /\ r.next_billing_at >= TodayStart(t)
  /\ r.next_billing_at <= TodayEnd(t)
  /\ (Truthy(c) => r.id > c)

findRenewableSubscriptions(table, take, c, t) ==
  LET ids == { i \in DOMAIN table : Renewable(table[i], t, c) }
      ordered == SortedSeq(ids)
  IN [ k \in 1..Min(take, Len(ordered)) |-> table[ordered[k]] ]

(* ------------------------------ job queues ----------------------------- *)
operatorQueues_defaultQueue(code) ==
  CASE code = "GP" -> RENEWAL_QUEUES.GP
    [] code = "ROBI" -> RENEWAL_QUEUES.ROBI
    [] code = "ROBI_MIFE" -> RENEWAL_QUEUES.ROBI_MIFE
    [] OTHER -> RENEWAL_QUEUES.GP

operatorQueues(code) ==
  CASE code = "GP" -> RENEWAL_QUEUES.GP
    [] code = "ROBI" -> RENEWAL_QUEUES.ROBI
    [] code = "ROBI_MIFE" -> RENEWAL_QUEUES.ROBI_MIFE
    [] OTHER -> "none"

(* a job is in flight while it is delayed or waiting ("delayed") and while *)
(* its handler has run but the queue has not yet completed or failed it    *)
InFlight(j) == j.st \in {"delayed", "returned", "threw"}

(* Queue.add: a job id that is already in the queue (in any state, a       *)
(* retained failed job included) makes the call a no-op.                   *)
(* chain: where the job stands among the jobs that descend from one        *)
(* dispatched job (attempt 1 is the dispatched job; paid counts the        *)
(* successful charges made by the jobs before it)                          *)
QueueAdd(js, q, jid, payload, delay, t, rof, chain) ==
  IF \E j \in js : j.q = q /\ j.jid = jid
  THEN js
  ELSE js \cup { [ q |-> q, jid |-> jid, sub |-> payload.subscriptionId,
                   data |-> payload.data, due |-> t + delay, st |-> "delayed",
                   rof |-> rof, attempt |-> chain.attempt, paid |-> chain.paid ] }

(* ------------------------------ dispatcher ----------------------------- *)
DelayMs_unclamped(nba, t) == nba - t

DelayMs(nba, t) == IF nba - t < 0 THEN 0 ELSE nba - t

(* RenewalService.dispatchRenewalJob for one row: the queue and the record *)
(* of the enqueue call, or no call for an unknown operator                 *)
EnqueueCall(r, t) ==
  LET q == operatorQueues(r.code)
  IN IF q = "none" THEN << >>
     ELSE << [ q |-> q, jobId |-> << "sub", r.subscription_id >>,
               sub |-> r.subscription_id, delay |-> DelayMs(r.next_billing_at, t) ] >>

RECURSIVE dispatchJobs(_, _, _, _, _)
(* rows page[k..n] enqueued in order, `t` being the Date.now() taken when  *)
(* the page starts; returns the jobs of the queues                         *)
dispatchJobs(js, page, k, n, t) ==
  IF k > n THEN js
  ELSE LET r == page[k]
           c == EnqueueCall(r, t)
           js2 == IF c = << >> THEN js
                  ELSE QueueAdd(js, c[1].q, c[1].jobId,
                                [subscriptionId |-> r.subscription_id, data |-> r],
                                c[1].delay, t, FALSE, [attempt |-> 1, paid |-> 0])
       IN dispatchJobs(js2, page, k + 1, n, t)

RECURSIVE EnqueueLog(_, _, _, _)
(* the Queue.add calls made for rows page[k..n] *)
EnqueueLog(page, k, n, t) ==
  IF k > n THEN << >> ELSE EnqueueCall(page[k], t) \o EnqueueLog(page, k + 1, n, t)

CronDue == now % HoursPerDay = CronHourUTC /\ lastCron # now

(* the rows with an operator queue that are due in the day window of hour  *)
(* t and that the run has made no Queue.add call for                       *)
NotEnqueued(table, enq, t) ==
  { i \in DOMAIN table :
      /\ Renewable(table[i], t, Nil)
      /\ operatorQueues(table[i].code) # "none"
      /\ \A k \in DOMAIN enq : enq[k].sub # table[i].subscription_id }

(* @Cron fires handleCron.  The record of the run that starts remembers    *)
(* how the previous run ended: the rows of its dispatched pages when it    *)
(* ended in a store error, and the due rows it left without a job when it  *)
(* ended in any error                                                      *)
handleCron ==
  /\ dpc = "idle"
  /\ CronDue
  /\ dpc' = "loop"
  /\ lastCron' = now
  /\ run' = [ returned |-> {}, enq |-> << >>, res |-> "running", owedAtStart |-> owed,
              rows |-> 0,
              pagesBefore |-> IF run.res = "findError"
                              THEN { r.subscription_id : r \in run.returned } ELSE {},
              cursorAtStart |-> cursor,
              missed |-> IF run.res \in {"findError", "addError"} THEN run.missed ELSE {} ]
  /\ owed' = {}
  /\ UNCHANGED << now, tz, faults, subs, cursor, jobs, nextJob, workVars, ledger,
                  consVars, notifVars, broker, rmq >>

(* this.cursor when an iteration of the while loop ends: reset at the      *)
(* empty page, the last id of a dispatched page, and left as it was when   *)
(* the store or the queue raised (the exception leaves handleCron)         *)
CursorAfter_resetOnError(c, page, how) ==
  IF how = "dispatched" THEN page[Len(page)].id ELSE Nil

CursorAfter(c, page, how) ==
  CASE how = "empty" -> Nil
    [] how = "dispatched" -> page[Len(page)].id
    [] OTHER -> c

(* one iteration of the while loop: a page is fetched and dispatched.      *)
(* findFails: the store raises; addFailAt: Queue.add raises at that row    *)
(* (0 = no failure)                                                        *)
CronLoop ==
  /\ dpc = "loop"
  /\ \E findFails \in BOOLEAN :
       LET page == findRenewableSubscriptions(subs, BATCH_SIZE, cursor, now)
       IN IF findFails
          THEN /\ MayFail(1)
               /\ faults' = faults + 1
               /\ dpc' = "idle"
               /\ cursor' = CursorAfter(cursor, page, "findError")
               /\ run' = [run EXCEPT !.res = "findError",
                                     !.missed = NotEnqueued(subs, run.enq, now)]
               /\ UNCHANGED jobs
          ELSE IF Len(page) = 0
          THEN /\ cursor' = CursorAfter(cursor, page, "empty")
               /\ dpc' = "idle"
               /\ run' = [run EXCEPT !.res = "done"]
               /\ UNCHANGED << jobs, faults >>
          ELSE \E addFailAt \in 0..Len(page) :
                 LET n == IF addFailAt = 0 THEN Len(page) ELSE addFailAt - 1
                     enq == run.enq \o EnqueueLog(page, 1, n, now)
                 IN /\ MayFail(B2N(addFailAt # 0))
                    /\ faults' = faults + B2N(addFailAt # 0)
                    /\ jobs' = dispatchJobs(jobs, page, 1, n, now)
                    /\ run' = [run EXCEPT
                                 !.returned = @ \cup Range(page),
                                 !.rows = @ + Len(page),
                                 !.enq = enq,
                                 !.res = IF addFailAt = 0 THEN "running" ELSE "addError",
                                 !.missed = IF addFailAt = 0 THEN @
                                            ELSE NotEnqueued(subs, enq, now)]
                    /\ cursor' = CursorAfter(cursor, page,
                                             IF addFailAt = 0 THEN "dispatched" ELSE "addError")
                    /\ dpc' = IF addFailAt = 0 THEN "loop" ELSE "idle"
  /\ UNCHANGED << now, tz, subs, lastCron, nextJob, workVars, owed, ledger, consVars,
                  notifVars, broker, rmq >>

(* ---------------------------- operator workers ------------------------- *)
LocalHour(t) == (t + tz) % HoursPerDay

(* midnight.setHours(0,0,0,0); midnight.setDate(getDate()+1) *)
NextMidnight(t) == t - LocalHour(t) + HoursPerDay

isBeforeMidnight_inclusive(t) == t + RequeueHours <= NextMidnight(t)

isBeforeMidnight(t) == t + RequeueHours < NextMidnight(t)

Deliverable(j, q) == j.q = q /\ j.st = "delayed" /\ j.due <= now

ChargeResult(j, ref, ok) ==
  [ ref |-> ref, subscriptionId |-> j.sub, data |-> j.data, success |-> ok ]

(* RedisService.rpush: a Redis error is caught, logged and null returned *)
rpush(list, v, redisOk) == IF redisOk THEN Append(list, v) ELSE list

(* GpPaymentService.getSubscriptionPeriod *)
getSubscriptionPeriod_noDefault(validity) ==
  CASE validity = 1 -> "P1D"
    [] validity = 7 -> "P1W"
    [] validity = 30 -> "P1M"
    [] validity = 180 -> "P6M"
    [] validity = 365 -> "P1Y"
    [] OTHER -> "undefined"

getSubscriptionPeriod(validity) ==
  CASE validity = 1 -> "P1D"
    [] validity = 7 -> "P1W"
    [] validity = 30 -> "P1M"
    [] validity = 180 -> "P6M"
    [] validity = 365 -> "P1Y"
    [] OTHER -> "P1D"

(* what a handler invocation did; period is the subscriptionPeriod of the  *)
(* GP charge request (validityInDays = billing_cycle_days of the snapshot); *)
(* charged: the gateway was called (every path but the ROBI skip)          *)
HandlerRecord(j, res, appended, requeued, success) ==
  [ q |-> j.q, sub |-> j.sub, res |-> res, appended |-> appended,
    requeued |-> requeued, success |-> success,
    period |-> IF j.q = RENEWAL_QUEUES.GP THEN getSubscriptionPeriod(j.data.cycle)
               ELSE "none",
    charged |-> res # "skipped", attempt |-> j.attempt, paidBefore |-> j.paid ]

(* `if (!isSuccess)` and, inside it, `if (isBeforeMidnight)` *)
shouldRequeue_whateverTheResult(isSuccess, t) == isBeforeMidnight(t)

shouldRequeue(isSuccess, t) == ~isSuccess /\ isBeforeMidnight(t)

(* RenewalGpProcessor.process.                                             *)
(* charge: what gpPaymentService.charge does; addOk: the re-queue add      *)
(* succeeds; redisOk: the ledger push reaches Redis                        *)
GpProcess ==
  /\ nextRef <= MaxCharges
  /\ \E j \in jobs, charge \in {"success", "failure", "throws"}, addOk \in BOOLEAN, redisOk \in BOOLEAN :
       /\ Deliverable(j, RENEWAL_QUEUES.GP)
       /\ LET ref == nextRef
              isSuccess == charge = "success"
              requeue == shouldRequeue(isSuccess, now)
              threw == charge = "throws" \/ (requeue /\ ~addOk)
              nf == IF charge = "throws" THEN 1
                    ELSE B2N(requeue /\ ~addOk) + B2N(~threw /\ ~redisOk)
              rest == jobs \ {j}
          IN /\ (charge = "throws" \/ ~requeue) => addOk
             /\ threw => redisOk
             /\ MayFail(nf)
             /\ faults' = faults + nf
             /\ nextRef' = nextRef + 1
             /\ IF threw
                THEN /\ jobs' = rest \cup {[j EXCEPT !.st = "threw"]}
                     /\ lastJob' = HandlerRecord(j, "threw", 0, FALSE, FALSE)
                     /\ UNCHANGED << nextJob, ledger, owed >>
                ELSE /\ jobs' = IF requeue
                                THEN QueueAdd(rest \cup {[j EXCEPT !.st = "returned"]}, j.q,
                                              << "auto", nextJob >>,
                                              [subscriptionId |-> j.sub, data |-> j.data],
                                              RequeueHours, now, TRUE,
                                              [attempt |-> j.attempt + 1,
                                               paid |-> j.paid + B2N(isSuccess)])
                                ELSE rest \cup {[j EXCEPT !.st = "returned"]}
                     /\ nextJob' = IF requeue THEN nextJob + 1 ELSE nextJob
                     /\ ledger' = rpush(ledger, ChargeResult(j, ref, isSuccess), redisOk)
                     /\ owed' = IF ~isSuccess /\ ~requeue THEN owed \cup {j.sub} ELSE owed
                     /\ lastJob' = HandlerRecord(j, "returned", Len(ledger') - Len(ledger),
                                                 requeue, isSuccess)
  /\ UNCHANGED << now, tz, subs, dispVars, consVars, notifVars, broker, rmq >>

(* `if (!config)` on data.charging_configurations?.config *)
MissingConfig_ignored(data) == FALSE

MissingConfig(data) == ~data.hasConfig

(* RenewalRobiProcessor.process *)
RobiProcess ==
  /\ nextRef <= MaxCharges
  /\ \E j \in jobs, charge \in {"success", "failure", "throws"}, redisOk \in BOOLEAN :
       /\ Deliverable(j, RENEWAL_QUEUES.ROBI)
       /\ LET ref == nextRef
              isSuccess == charge = "success"
              rest == jobs \ {j}
          IN /\ nextRef' = nextRef + 1
             /\ IF MissingConfig(j.data)
                THEN /\ charge = "success" /\ redisOk
                     /\ jobs' = rest \cup {[j EXCEPT !.st = "returned"]}
                     /\ lastJob' = HandlerRecord(j, "skipped", 0, FALSE, FALSE)
                     /\ owed' = owed \cup {j.sub}
                     /\ UNCHANGED << ledger, faults >>
                ELSE IF charge = "throws"
                THEN /\ redisOk
                     /\ MayFail(1)
                     /\ faults' = faults + 1
                     /\ jobs' = rest \cup {[j EXCEPT !.st = "threw"]}
                     /\ lastJob' = HandlerRecord(j, "threw", 0, FALSE, FALSE)
                     /\ UNCHANGED << ledger, owed >>
                ELSE /\ MayFail(B2N(~redisOk))
                     /\ faults' = faults + B2N(~redisOk)
                     /\ jobs' = rest \cup {[j EXCEPT !.st = "returned"]}
                     /\ ledger' = rpush(ledger, ChargeResult(j, ref, isSuccess), redisOk)
                     /\ lastJob' = HandlerRecord(j, "returned", Len(ledger') - Len(ledger),
                                                 FALSE, isSuccess)
                     /\ UNCHANGED owed
  /\ UNCHANGED << now, tz, subs, dispVars, nextJob, consVars, notifVars, broker, rmq >>

(* the queue settles a job whose handler has ended: a returned job is      *)
(* completed and removed (removeOnComplete), a job whose handler raised is *)
(* failed and kept unless removeOnFail                                     *)
JobFinish ==
  /\ \E j \in jobs :
       /\ j.st \in {"returned", "threw"}
       /\ jobs' = IF j.st = "returned" \/ j.rof
                  THEN jobs \ {j}
                  ELSE (jobs \ {j}) \cup {[j EXCEPT !.st = "failed"]}
  /\ UNCHANGED << now, tz, faults, subs, dispVars, nextJob, workVars, owed, ledger,
                  consVars, notifVars, broker, rmq >>

(* ------------------------- notification publisher ---------------------- *)
isConnected(b) == b.connection /\ b.channel

(* RabbitMQProducerService.publishMessage: TRUE when the broker confirmed  *)
(* the publish; without a channel, on a dead connection or on a negative   *)
(* acknowledgement the call raises                                         *)
publishMessage(b, brokerAck) == b.channel /\ b.live /\ brokerAck

(* RedisService.set under storeFallback: the retry count of an existing    *)
(* entry is kept; a Redis error is caught and logged, nothing is stored    *)
storeFallback(fb, id, redisOk) ==
  IF ~redisOk THEN fb
  ELSE LET retryCount == IF id \in DOMAIN fb THEN fb[id] ELSE 0
       IN [ k \in DOMAIN fb \cup {id} |-> IF k = id THEN retryCount ELSE fb[k] ]

(* sendNotification for one message; st = [acked, fallback]; ack and       *)
(* redisOk are the broker's and Redis' answers                             *)
sendNotification(st, b, id, ack, redisOk) ==
  IF ~isConnected(b)
  THEN [st EXCEPT !.fallback = storeFallback(@, id, redisOk)]
  ELSE IF publishMessage(b, ack)
  THEN [st EXCEPT !.acked = Append(@, id)]
  ELSE [st EXCEPT !.fallback = storeFallback(@, id, redisOk)]

RECURSIVE sendNotificationsBatch(_, _, _, _, _, _)
(* messages ids[k..] sent in order *)
sendNotificationsBatch(st, b, ids, k, ack, redisOk) ==
  IF k > Len(ids) THEN st
  ELSE sendNotificationsBatch(sendNotification(st, b, ids[k], ack[k], redisOk[k]),
                              b, ids, k + 1, ack, redisOk)

(* the storeFallback calls of a batch that Redis fails *)
StoreFaults(b, S, ack, redisOk) ==
  Cardinality({ k \in S : ~redisOk[k] })

(* the publishes on an open channel that the broker refuses or leaves      *)
(* unconfirmed                                                             *)
PublishFaults(b, S, ack) ==
  Cardinality({ k \in S : b.channel /\ b.live /\ ~ack[k] })

(* answers that do not matter are fixed: Redis is asked only when the      *)
(* publish did not succeed                                                 *)
Answers(b, S, ack, redisOk) ==
  \A k \in S : /\ (isConnected(b) /\ publishMessage(b, ack[k])) => redisOk[k]
               /\ ~(b.channel /\ b.live) => ack[k]

(* ----------------------------- result consumer ------------------------- *)
nextBillingAt(t, billingCycleDays) == t + billingCycleDays * HoursPerDay

subscriptionUpdateInputs_keepOnFailure(batch, t) ==
  [ k \in DOMAIN batch |->
      [ subscriptionId |-> batch[k].subscriptionId, success |-> batch[k].success,
        nextBillingAt |-> IF batch[k].success THEN nextBillingAt(t, batch[k].data.cycle)
                          ELSE batch[k].data.next_billing_at ] ]

subscriptionUpdateInputs(batch, t) ==
  [ k \in DOMAIN batch |->
      [ subscriptionId |-> batch[k].subscriptionId, success |-> batch[k].success,
        nextBillingAt |-> nextBillingAt(t, batch[k].data.cycle) ] ]

Succeeded(o) == o.success

billingEventsCreateManyInputs_successOnly(batch) ==
  LET kept == SelectSeq(batch, Succeeded)
  IN [ k \in DOMAIN kept |->
         [ subscription_id |-> kept[k].subscriptionId, payment_reference_id |-> kept[k].ref,
           event_type |-> "RENEWAL", status |-> "SUCCESS" ] ]

billingEventsCreateManyInputs(batch) ==
  [ k \in DOMAIN batch |->
      [ subscription_id |-> batch[k].subscriptionId, payment_reference_id |-> batch[k].ref,
        event_type |-> "RENEWAL", status |-> IF batch[k].success THEN "SUCCESS" ELSE "FAILED" ] ]

notificationMessages(batch, firstId) ==
  [ k \in DOMAIN batch |->
      [ id |-> firstId + k - 1, subscriptionId |-> batch[k].subscriptionId,
        eventType |-> IF batch[k].success THEN "renew.success" ELSE "renew.fail",
        ref |-> batch[k].ref ] ]

(* the THEN values of the CASE for last_payment_succeed_at and for         *)
(* last_payment_failed_at                                                  *)
succeedAtCases(u, t) == IF u.success THEN t ELSE Nil

failedAtCases_always(u, t) == t

failedAtCases(u, t) == IF u.success THEN Nil ELSE t

(* the single UPDATE ... SET col = CASE subscription_id WHEN .. THEN .. END *)
(* a CASE takes its first matching WHEN                                    *)
bulkUpdateStatus_noWhere(table, updates, t) ==
  [ i \in DOMAIN table |->
      IF \E k \in DOMAIN updates : updates[k].subscriptionId = i
      THEN LET k == CHOOSE x \in DOMAIN updates :
                      /\ updates[x].subscriptionId = i
                      /\ \A y \in DOMAIN updates : updates[y].subscriptionId = i => x <= y
               u == updates[k]
           IN [ table[i] EXCEPT
                  !.status = IF u.success THEN "ACTIVE" ELSE "SUSPENDED_PAYMENT_FAILED",
                  !.succeed_at = succeedAtCases(u, t),
                  !.failed_at = failedAtCases(u, t),
                  !.next_billing_at = u.nextBillingAt ]
      ELSE [ table[i] EXCEPT !.status = "NULL", !.succeed_at = Nil, !.failed_at = Nil,
                             !.next_billing_at = Nil ] ]

bulkUpdateStatus(table, updates, t) ==
  [ i \in DOMAIN table |->
      IF \E k \in DOMAIN updates : updates[k].subscriptionId = i
      THEN LET k == CHOOSE x \in DOMAIN updates :
                      /\ updates[x].subscriptionId = i
                      /\ \A y \in DOMAIN updates : updates[y].subscriptionId = i => x <= y
               u == updates[k]
           IN [ table[i] EXCEPT
                  !.status = IF u.success THEN "ACTIVE" ELSE "SUSPENDED_PAYMENT_FAILED",
                  !.succeed_at = succeedAtCases(u, t),
                  !.failed_at = failedAtCases(u, t),
                  !.next_billing_at = u.nextBillingAt ]
      ELSE table[i] ]

DrainRecord(n, updates, events, notifs, res) ==
  [ n |-> n, updates |-> updates, events |-> events, notifs |-> notifs, res |-> res ]

(* the three awaited calls of processResultsBatch, in program order: the   *)
(* calls that have completed when the call failAt raises ("none": no call  *)
(* raises)                                                                 *)
CompletedCalls_createFirst(failAt) ==
  CASE failAt = "bulkUpdateStatus" -> {"createMany"}
    [] failAt = "createMany" -> {}
    [] OTHER -> {"bulkUpdateStatus", "createMany", "sendNotificationsBatch"}

CompletedCalls(failAt) ==
  CASE failAt = "bulkUpdateStatus" -> {}
    [] failAt = "createMany" -> {"bulkUpdateStatus"}
    [] OTHER -> {"bulkUpdateStatus", "createMany", "sendNotificationsBatch"}

(* processResultsBatch for a parsed batch, under the try/catch of          *)
(* handleResultQueue.  failAt: the store raises in bulkUpdateStatus (which *)
(* returns at once on an empty list) or in createMany; ack, redisOk: the   *)
(* answers met by the notification batch                                   *)
processResultsBatch(batch) ==
  LET n == Len(batch)
      updates == subscriptionUpdateInputs(batch, now)
      events == billingEventsCreateManyInputs(batch)
      msgs == notificationMessages(batch, nextNotif)
  IN \/ /\ MayFail(1)
        /\ faults' = faults + 1
        /\ \E failAt \in {"bulkUpdateStatus", "createMany"} :
             LET completed == CompletedCalls(failAt)
             IN /\ failAt = "bulkUpdateStatus" => n > 0
                /\ subs' = IF "bulkUpdateStatus" \in completed
                           THEN bulkUpdateStatus(subs, updates, now) ELSE subs
                /\ billing' = IF "createMany" \in completed
                              THEN billing \o events ELSE billing
                /\ lastDrain' = DrainRecord(n, Len(updates),
                                            IF failAt = "bulkUpdateStatus" THEN -1
                                            ELSE Len(events),
                                            -1, "error")
                /\ UNCHANGED notifVars
     \/ \E ack \in [1..n -> BOOLEAN], redisOk \in [1..n -> BOOLEAN] :
          LET st == sendNotificationsBatch([acked |-> acked, fallback |-> fallback],
                                           broker, [k \in 1..n |-> msgs[k].id], 1,
                                           ack, redisOk)
              nf == StoreFaults(broker, 1..n, ack, redisOk) + PublishFaults(broker, 1..n, ack)
          IN /\ Answers(broker, 1..n, ack, redisOk)
             /\ MayFail(nf)
             /\ faults' = faults + nf
             /\ subs' = bulkUpdateStatus(subs, updates, now)
             /\ billing' = billing \o events
             /\ handed' = handed \cup Range(msgs)
             /\ nextNotif' = nextNotif + n
             /\ acked' = st.acked
             /\ fallback' = st.fallback
             /\ lastDrain' = DrainRecord(n, Len(updates), Len(events), Len(msgs), "ok")
             /\ UNCHANGED << permFailed, resent >>

(* a list entry that is not JSON (the workers push JSON.stringify of a     *)
(* ChargeResult; anything else comes from another writer of the list)      *)
Malformed == [ raw |-> "malformed" ]

(* JSON.parse accepts the entry *)
Parses(e) == "raw" \notin DOMAIN e

(* the parsing loop: an entry that JSON.parse rejects is logged and left   *)
(* out of the batch                                                        *)
ParsedBatch_abortOnMalformed(collectedResults) ==
  IF \A k \in DOMAIN collectedResults : Parses(collectedResults[k])
  THEN collectedResults ELSE << >>

ParsedBatch(collectedResults) == SelectSeq(collectedResults, Parses)

(* ResultConsumerScheduler.handleResultQueue, run from its start to its    *)
(* end without another task in between                                     *)
handleResultQueue ==
  /\ LET collectedResults == Take(ledger, MAX_BATCH_SIZE)
         batch == ParsedBatch(collectedResults)
         n == Len(collectedResults)
     IN /\ ledger' = SubSeq(ledger, n + 1, Len(ledger))
        /\ popped' = popped \cup { batch[k].ref : k \in DOMAIN batch }
        /\ IF n = 0
           THEN /\ lastDrain' = DrainRecord(0, -1, -1, -1, "empty")
                /\ UNCHANGED << subs, billing, notifVars, faults >>
           ELSE processResultsBatch(batch)
  /\ UNCHANGED << now, tz, dispVars, jobs, nextJob, workVars, owed, drains, broker, rmq >>

(* the same handler followed through its awaits.  The @Cron decorator      *)
(* names the job and sets nothing else, and the handler keeps no flag: a   *)
(* tick starts an invocation whatever the earlier invocations are doing    *)
DrainTick ==
  /\ Len(drains) < MaxDrains
  /\ drains' = Append(drains, [ pc |-> "pop", collected |-> << >> ])
  /\ UNCHANGED << now, tz, faults, subs, dispVars, jobs, nextJob, workVars, owed, ledger,
                  billing, popped, lastDrain, notifVars, broker, rmq >>

(* RedisService.lpop: the head of the list and the rest; nothing found  *)
(* (null) when the list is empty or Redis raised (the error is caught)     *)
lpop_fromTail(list, redisOk) ==
  IF list = << >> \/ ~redisOk THEN [ found |-> FALSE, value |-> Nil, list |-> list ]
  ELSE [ found |-> TRUE, value |-> list[Len(list)], list |-> SubSeq(list, 1, Len(list) - 1) ]

lpop_peek(list, redisOk) ==
  IF list = << >> \/ ~redisOk THEN [ found |-> FALSE, value |-> Nil, list |-> list ]
  ELSE [ found |-> TRUE, value |-> Head(list), list |-> list ]

lpop(list, redisOk) ==
  IF list = << >> \/ ~redisOk THEN [ found |-> FALSE, value |-> Nil, list |-> list ]
  ELSE [ found |-> TRUE, value |-> Head(list), list |-> Tail(list) ]

(* where the collecting loop stands after a pop: it ends on an empty pop   *)
(* and after MAX_BATCH_SIZE iterations, and the handler returns when       *)
(* nothing was collected                                                   *)
AfterPop_noCap(got, found) ==
  IF ~found THEN (IF got = << >> THEN "done" ELSE "process")
  ELSE "pop"

AfterPop(got, found) ==
  IF ~found THEN (IF got = << >> THEN "done" ELSE "process")
  ELSE IF Len(got) = MAX_BATCH_SIZE THEN "process"
  ELSE "pop"

(* one iteration of the collecting loop of an invocation *)
DrainLpop ==
  /\ \E d \in DOMAIN drains, redisOk \in BOOLEAN :
       LET r == lpop(ledger, redisOk)
           got == IF ~r.found THEN drains[d].collected
                  ELSE Append(drains[d].collected, r.value)
       IN /\ drains[d].pc = "pop"
          /\ ledger = << >> => redisOk
          /\ MayFail(B2N(~redisOk))
          /\ faults' = faults + B2N(~redisOk)
          /\ ledger' = r.list
          /\ popped' = IF r.found /\ Parses(r.value) THEN popped \cup {r.value.ref}
                        ELSE popped
          /\ drains' = [drains EXCEPT
                          ![d] = [ collected |-> got, pc |-> AfterPop(got, r.found) ]]
          /\ lastDrain' = IF ~r.found /\ got = << >>
                          THEN DrainRecord(0, -1, -1, -1, "empty") ELSE lastDrain
  /\ UNCHANGED << now, tz, subs, dispVars, jobs, nextJob, workVars, owed, billing,
                  notifVars, broker, rmq >>

(* the collected entries are parsed and processed *)
DrainProcess ==
  /\ \E d \in DOMAIN drains :
       /\ drains[d].pc = "process"
       /\ processResultsBatch(ParsedBatch(drains[d].collected))
       /\ drains' = [drains EXCEPT ![d].pc = "done"]
  /\ UNCHANGED << now, tz, dispVars, jobs, nextJob, workVars, owed, ledger, popped, broker, rmq >>

(* ----------------------------- fallback retrier ------------------------ *)
(* what processFallbackStorage does with one key while the broker handle   *)
(* reports connected.  published: publishMessage resolved; delOk: the      *)
(* redis.del of the key went through (RedisService.del does not catch, so  *)
(* a Redis error there reaches the catch block of the loop, like a failed  *)
(* publish).  "permanent": deleted at the cap; "sent": published and       *)
(* deleted; "retry": not published, kept; "capKept": at the cap, kept;     *)
(* "sentKept": published, kept                                             *)
RetryStep_dropOnFailure(retryCount, published, delOk) ==
  IF retryCount >= maxFallbackRetries THEN (IF delOk THEN "permanent" ELSE "capKept")
  ELSE IF published THEN (IF delOk THEN "sent" ELSE "sentKept")
  ELSE "permanent"

RetryStep(retryCount, published, delOk) ==
  IF retryCount >= maxFallbackRetries THEN (IF delOk THEN "permanent" ELSE "capKept")
  ELSE IF published THEN (IF delOk THEN "sent" ELSE "sentKept")
  ELSE "retry"

(* the catch block: message.retryCount++ and redis.set, when the get and   *)
(* the set reach Redis (their errors are caught and logged)                *)
retryCountAfterCatch(retryCount, redisOk) ==
  IF redisOk THEN retryCount + 1 ELSE retryCount

(* EventPublisherService.processFallbackStorage *)
processFallbackStorage ==
  /\ DOMAIN fallback # {}
  /\ isConnected(broker)
  /\ \E ack \in [DOMAIN fallback -> BOOLEAN], redisOk \in [DOMAIN fallback -> BOOLEAN],
        delOk \in [DOMAIN fallback -> BOOLEAN] :
       LET step(k) == RetryStep(fallback[k], publishMessage(broker, ack[k]), delOk[k])
           kept == { k \in DOMAIN fallback : step(k) \in {"retry", "capKept", "sentKept"} }
           sent == { k \in DOMAIN fallback : step(k) \in {"sent", "sentKept"} }
           nf == Cardinality({ k \in DOMAIN fallback : ~redisOk[k] })
                 + Cardinality({ k \in DOMAIN fallback : ~delOk[k] })
                 + PublishFaults(broker, DOMAIN fallback, ack)
       IN /\ \A k \in DOMAIN fallback : k \notin kept => redisOk[k]
          /\ \A k \in DOMAIN fallback : step(k) = "retry" => delOk[k]
          /\ \A k \in DOMAIN fallback :
               (fallback[k] >= maxFallbackRetries \/ ~(broker.channel /\ broker.live)) => ack[k]
          /\ MayFail(nf)
          /\ faults' = faults + nf
          /\ fallback' = [ k \in kept |-> retryCountAfterCatch(fallback[k], redisOk[k]) ]
          /\ acked' = acked \o SortedSeq(sent)
          /\ permFailed' = permFailed \cup { k \in DOMAIN fallback : step(k) = "permanent" }
          /\ resent' = resent \cup sent
  /\ UNCHANGED << now, tz, subs, dispVars, jobs, nextJob, workVars, owed, ledger, consVars,
                  handed, nextNotif, broker, rmq >>

(* ---------------------------------- broker ----------------------------- *)
(* the connection drops; the handles kept by the service are not cleared *)
BrokerDrop ==
  /\ broker.live
  /\ broker' = [broker EXCEPT !.live = FALSE]
  /\ UNCHANGED << now, tz, faults, subs, dispVars, jobs, nextJob, workVars, owed, ledger,
                  consVars, notifVars, rmq >>

(* RabbitMQProducerService.connect succeeds *)
connect ==
  /\ ~broker.live
  /\ broker' = [ connection |-> TRUE, channel |-> TRUE, live |-> TRUE ]
  /\ UNCHANGED << now, tz, faults, subs, dispVars, jobs, nextJob, workVars, owed, ledger,
                  consVars, notifVars, rmq >>

(* -------------------- broker connection, step by step ------------------ *)
(* RabbitMQProducerService followed through its awaits and its timers.     *)
(* Delays are in seconds.  rmq.timers: the pending setTimeout callbacks of *)
(* handleConnectionError, `after` seconds from now, n the attempt number;  *)
(* rmq.connecting: invocations of connect between the guard and the end of *)
(* the try/catch; rmq.orphans: open connections other than the one whose   *)
(* channel the service holds (their 'error' and 'close' handlers stay      *)
(* registered); rmq.failed: connect attempts that failed since the last    *)
(* successful one; rmq.pub: the publishMessage call being followed         *)
maxReconnectAttempts == 10
reconnectDelay == 5
rmqRetryAttempts == 3
rmqRetryDelay == 5

PubIdle == [ pc |-> "idle", retryCount |-> 0, after |-> 0, passes |-> << >> ]

RmqStart ==
  [ reconnectAttempts |-> 0, isConnecting |-> FALSE, timers |-> << >>, connecting |-> 0,
    orphans |-> 0, drops |-> 0, failed |-> 0, pub |-> PubIdle, calls |-> 0,
    last |-> "none" ]

(* setTimeout(() => this.connect(), this.reconnectDelay * this.reconnectAttempts) *)
ReconnectDelayOf_constant(attempt) == reconnectDelay

ReconnectDelayOf(attempt) == reconnectDelay * attempt

(* RabbitMQProducerService.handleConnectionError on the service state r *)
handleConnectionError(r) ==
  IF r.reconnectAttempts < maxReconnectAttempts
  THEN LET attempt == r.reconnectAttempts + 1
       IN [r EXCEPT !.reconnectAttempts = attempt,
                    !.timers = Append(@, [ after |-> ReconnectDelayOf(attempt), n |-> attempt ])]
  ELSE r

(* the events a connection emits when it goes down: 'close', after an      *)
(* 'error' when it went down with one                                      *)
DropEvents == { << "close" >>, << "error", "close" >> }

RECURSIVE onConnectionEvents(_, _)
(* the 'error' and the 'close' handler of connect: each calls              *)
(* handleConnectionError                                                   *)
onConnectionEvents(r, events) ==
  IF events = << >> THEN r
  ELSE onConnectionEvents(handleConnectionError(r), Tail(events))

(* an open connection goes down: the one that carries the channel the      *)
(* service holds, or an orphan.  The handles are left as they are          *)
connectionLost ==
  /\ rmq.drops < MaxDrops
  /\ \E held \in BOOLEAN, events \in DropEvents :
       /\ IF held THEN broker.live ELSE rmq.orphans > 0
       /\ broker' = IF held THEN [broker EXCEPT !.live = FALSE] ELSE broker
       /\ rmq' = [onConnectionEvents(rmq, events) EXCEPT
                    !.drops = @ + 1,
                    !.orphans = IF held THEN @ ELSE @ - 1,
                    !.last = IF Len(events) = 2 THEN "errorAndClose" ELSE "close"]
  /\ UNCHANGED << now, tz, faults, subs, dispVars, jobs, nextJob, workVars, owed, ledger,
                  consVars, notifVars >>

(* `if (this.isConnecting) return` *)
connectGuard_absent(r) == FALSE

connectGuard(r) == r.isConnecting

(* a reconnect timer fires and calls connect, which runs to its first      *)
(* await or returns at the guard                                           *)
connectCall ==
  /\ \E k \in DOMAIN rmq.timers :
       /\ rmq.timers[k].after = 0
       /\ LET rest == [rmq EXCEPT !.timers = SubSeq(@, 1, k - 1) \o SubSeq(@, k + 1, Len(@))]
          IN rmq' = IF connectGuard(rmq)
                    THEN [rest EXCEPT !.last = "connectSkipped"]
                    ELSE [rest EXCEPT !.isConnecting = TRUE, !.connecting = @ + 1,
                                      !.last = "connectStarted"]
  /\ UNCHANGED << now, tz, faults, subs, dispVars, jobs, nextJob, workVars, owed, ledger,
                  consVars, notifVars, broker >>

(* the rest of connect.  "ok": connection, channel and topology are set    *)
(* up; "connectFails": amqp.connect rejects; "channelFails": the new       *)
(* connection is open and assigned, its handlers are registered, and       *)
(* createConfirmChannel or the topology setup rejects                      *)
connectSettle ==
  /\ rmq.connecting > 0
  /\ \E outcome \in {"ok", "connectFails", "channelFails"} :
       LET done == [rmq EXCEPT !.connecting = @ - 1, !.isConnecting = FALSE]
       IN CASE outcome = "ok" ->
                 /\ broker' = [ connection |-> TRUE, channel |-> TRUE, live |-> TRUE ]
                 /\ rmq' = [done EXCEPT !.reconnectAttempts = 0, !.failed = 0,
                                        !.orphans = @ + B2N(broker.live),
                                        !.last = "connected"]
            [] outcome = "connectFails" ->
                 /\ broker' = broker
                 /\ rmq' = [handleConnectionError(done) EXCEPT
                              !.failed = @ + 1, !.last = "connectFailed"]
            [] outcome = "channelFails" ->
                 /\ broker' = [broker EXCEPT !.connection = TRUE]
                 /\ rmq' = [handleConnectionError(done) EXCEPT
                              !.failed = @ + 1, !.orphans = @ + 1, !.last = "channelFailed"]
  /\ UNCHANGED << now, tz, faults, subs, dispVars, jobs, nextJob, workVars, owed, ledger,
                  consVars, notifVars >>

(* one pass through publishMessage(message, retryCount): without a channel *)
(* and after an error raised before the publish the call waits and calls   *)
(* itself with retryCount + 1 while retryCount < maxRetries; the promise   *)
(* around channel.publish is returned, not awaited, so its rejection (a    *)
(* negative acknowledgement, a publish on a dead connection) goes to the   *)
(* caller and not to the catch block                                       *)
publishPass(b, passes, retryCount, outcome) ==
  LET saw == IF ~b.channel THEN "noChannel" ELSE outcome
      now2 == Append(passes, saw)
  IN IF ~b.channel \/ outcome = "syncError"
     THEN IF retryCount < rmqRetryAttempts
          THEN [ pc |-> "wait", retryCount |-> retryCount + 1, after |-> rmqRetryDelay,
                 passes |-> now2 ]
          ELSE [ pc |-> "raised", retryCount |-> retryCount, after |-> 0, passes |-> now2 ]
     ELSE IF publishMessage(b, outcome = "ack")
     THEN [ pc |-> "resolved", retryCount |-> retryCount, after |-> 0, passes |-> now2 ]
     ELSE [ pc |-> "raised", retryCount |-> retryCount, after |-> 0, passes |-> now2 ]

(* a caller calls publishMessage, or the delay of a call that waits ends;  *)
(* rmq.pub.passes: what each pass of the call met; rmq.calls: the calls    *)
(* made so far                                                             *)
publishMessageStep ==
  /\ IF rmq.pub.pc = "wait" THEN rmq.pub.after = 0 ELSE rmq.calls < MaxPublishes
  /\ \E outcome \in {"ack", "nack", "syncError"} :
       /\ ~broker.channel => outcome = "ack"
       /\ (broker.channel /\ ~broker.live) => outcome # "ack"
       /\ rmq' = [rmq EXCEPT
                    !.pub = IF rmq.pub.pc = "wait"
                            THEN publishPass(broker, rmq.pub.passes, rmq.pub.retryCount, outcome)
                            ELSE publishPass(broker, << >>, 0, outcome),
                    !.calls = IF rmq.pub.pc = "wait" THEN @ ELSE @ + 1]
  /\ UNCHANGED << now, tz, faults, subs, dispVars, jobs, nextJob, workVars, owed, ledger,
                  consVars, notifVars, broker >>

(* reconnectDelay seconds pass: the timers that are due have fired *)
Elapse ==
  /\ \A k \in DOMAIN rmq.timers : rmq.timers[k].after > 0
  /\ rmq.pub.pc = "wait" => rmq.pub.after > 0
  /\ rmq.timers # << >> \/ rmq.pub.pc = "wait"
  /\ rmq' = [rmq EXCEPT
               !.timers = [ k \in DOMAIN rmq.timers |->
                              [ after |-> rmq.timers[k].after - reconnectDelay,
                                n |-> rmq.timers[k].n ] ],
               !.pub = IF @.pc = "wait" THEN [@ EXCEPT !.after = @ - rmqRetryDelay] ELSE @]
  /\ UNCHANGED << now, tz, faults, subs, dispVars, jobs, nextJob, workVars, owed, ledger,
                  consVars, notifVars, broker >>

(* ---------------------------------- clock ------------------------------ *)
(* an hour passes.  The cron fires on time, handlers end within the hour,  *)
(* the 10-second consumer has emptied the ledger, and a due job has been   *)
(* delivered to the worker of its queue                                    *)
Tick ==
  /\ now < MaxTime
  /\ dpc = "idle"
  /\ ~CronDue
  /\ ledger = << >>
  /\ \A j \in jobs : j.st \notin {"returned", "threw"}
  /\ nextRef <= MaxCharges =>
       \A j \in jobs : ~Deliverable(j, RENEWAL_QUEUES.GP) /\ ~Deliverable(j, RENEWAL_QUEUES.ROBI)
  /\ now' = now + 1
  /\ UNCHANGED << tz, faults, subs, dispVars, jobs, nextJob, workVars, owed, ledger,
                  consVars, notifVars, broker, rmq >>

(* ------------------------------ specification -------------------------- *)
(* the broker after onModuleInit: connected, connected and since dropped,  *)
(* or never connected                                                      *)
BrokerStates ==
  { [ connection |-> TRUE, channel |-> TRUE, live |-> TRUE ],
    [ connection |-> TRUE, channel |-> TRUE, live |-> FALSE ],
    [ connection |-> FALSE, channel |-> FALSE, live |-> FALSE ] }

(* nf: the faults the environment has injected before the first cron *)
Start(nf) ==
  /\ now = CronHourUTC - 1
  /\ tz \in TzOffsets
  /\ faults = nf
  /\ \E f \in [SubIds -> DOMAIN Profiles] :
       /\ \A i, k \in SubIds : i < k => f[i] < f[k]
       /\ subs = [ i \in SubIds |-> Row(i, Profiles[f[i]]) ]
  /\ cursor = Nil
  /\ dpc = "idle"
  /\ lastCron = Nil
  /\ run = [ returned |-> {}, enq |-> << >>, res |-> "none", owedAtStart |-> {}, rows |-> 0,
           pagesBefore |-> {}, cursorAtStart |-> Nil, missed |-> {} ]
  /\ jobs = {}
  /\ nextJob = 1
  /\ nextRef = 1
  /\ lastJob = [ q |-> "none", sub |-> Nil, res |-> "none", appended |-> 0,
                 requeued |-> FALSE, success |-> FALSE, period |-> "none",
                 charged |-> FALSE, attempt |-> 0, paidBefore |-> 0 ]
  /\ owed = {}
  /\ ledger = << >>
  /\ billing = << >>
  /\ popped = {}
  /\ lastDrain = DrainRecord(0, -1, -1, -1, "none")
  /\ drains = << >>
  /\ handed = {}
  /\ nextNotif = 1
  /\ acked = << >>
  /\ fallback = << >>
  /\ permFailed = {}
  /\ resent = {}
  /\ broker \in { b \in BrokerStates : b.live = b.connection }
  /\ rmq = RmqStart

Init == Start(0)

(* the renewal pipeline: dispatch, workers, drain *)
Next ==
  \/ handleCron
  \/ CronLoop
  \/ GpProcess
  \/ RobiProcess
  \/ JobFinish
  \/ handleResultQueue
  \/ Tick

Spec == Init /\ [][Next]_vars

(* the pipeline with the scheduling of the dispatch loop: an iteration     *)
(* that can run does run (the loop only awaits the store, the queue and a  *)
(* 50 ms timer)                                                            *)
(* (followed while the store, the queue, Redis, the gateways and the       *)
(* broker answer every call: the environment's faults are spent at the     *)
(* start)                                                                  *)
InitFair == Start(MaxFaults)

SpecFair == InitFair /\ [][Next]_vars /\ WF_vars(CronLoop)

(* the notification path: the workers have pushed the outcomes of the      *)
(* day's charges, the consumer drains them, the retrier sweeps the         *)
(* fallback keys and the broker connection comes and goes                  *)
InitNotify ==
  /\ now = CronHourUTC
  /\ tz = TzDhaka
  /\ faults = 0
  /\ subs = [ i \in SubIds |-> Row(i, Profiles[1]) ]
  /\ cursor = Nil
  /\ dpc = "idle"
  /\ lastCron = CronHourUTC
  /\ run = [ returned |-> {}, enq |-> << >>, res |-> "none", owedAtStart |-> {}, rows |-> 0,
           pagesBefore |-> {}, cursorAtStart |-> Nil, missed |-> {} ]
  /\ jobs = {}
  /\ nextJob = 1
  /\ lastJob = [ q |-> "none", sub |-> Nil, res |-> "none", appended |-> 0,
                 requeued |-> FALSE, success |-> FALSE, period |-> "none",
                 charged |-> FALSE, attempt |-> 0, paidBefore |-> 0 ]
  /\ owed = {}
  /\ \E n \in 1..MaxLedger, who \in [1..MaxLedger -> SubIds], ok \in [1..MaxLedger -> BOOLEAN] :
       /\ ledger = [ k \in 1..n |->
                       ChargeResult([sub |-> who[k], data |-> subs[who[k]]], k, ok[k]) ]
       /\ nextRef = n + 1
  /\ billing = << >>
  /\ popped = {}
  /\ lastDrain = DrainRecord(0, -1, -1, -1, "none")
  /\ drains = << >>
  /\ handed = {}
  /\ nextNotif = 1
  /\ acked = << >>
  /\ fallback = << >>
  /\ permFailed = {}
  /\ resent = {}
  /\ broker \in BrokerStates
  /\ rmq = RmqStart

NextNotify ==
  \/ handleResultQueue
  \/ processFallbackStorage
  \/ BrokerDrop
  \/ connect

SpecNotify == InitNotify /\ [][NextNotify]_vars

(* the consumer next to the workers: the dispatch run of the day has ended, *)
(* the jobs it enqueued fall due, the workers charge and push outcomes     *)
(* while the 10-second cron starts invocations of the consumer (followed   *)
(* while the gateways, Redis, the store and the broker answer every call)  *)
InitDrain ==
  LET t0 == CronHourUTC
      table == [ i \in SubIds |-> Row(i, Profiles[1]) ]
      page == findRenewableSubscriptions(table, NumSubs, Nil, t0)
  IN /\ now = t0 + 1
     /\ tz = TzDhaka
     /\ faults = MaxFaults
     /\ subs = table
     /\ cursor = Nil
     /\ dpc = "idle"
     /\ lastCron = t0
     /\ run = [ returned |-> Range(page), enq |-> EnqueueLog(page, 1, Len(page), t0),
                res |-> "done", owedAtStart |-> {}, rows |-> Len(page),
                pagesBefore |-> {}, cursorAtStart |-> Nil, missed |-> {} ]
     /\ jobs = dispatchJobs({}, page, 1, Len(page), t0)
     /\ nextJob = 1
     /\ nextRef = 1
     /\ lastJob = [ q |-> "none", sub |-> Nil, res |-> "none", appended |-> 0,
                    requeued |-> FALSE, success |-> FALSE, period |-> "none",
                    charged |-> FALSE, attempt |-> 0, paidBefore |-> 0 ]
     /\ owed = {}
     /\ ledger = << >>
     /\ billing = << >>
     /\ popped = {}
     /\ lastDrain = DrainRecord(0, -1, -1, -1, "none")
     /\ drains = << >>
     /\ handed = {}
     /\ nextNotif = 1
     /\ acked = << >>
     /\ fallback = << >>
     /\ permFailed = {}
     /\ resent = {}
     /\ broker = [ connection |-> TRUE, channel |-> TRUE, live |-> TRUE ]
     /\ rmq = RmqStart

(* the GP worker alone, on jobs whose snapshots carry every                *)
(* billing_cycle_days from 0 to MaxCycleDays                               *)
InitPeriod ==
  LET t0 == CronHourUTC
  IN \E days \in 0..MaxCycleDays :
       LET table == [ i \in SubIds |->
                        [ Row(i, Profiles[1]) EXCEPT !.cycle = IF i = 1 THEN days ELSE @ ] ]
           page == findRenewableSubscriptions(table, NumSubs, Nil, t0)
       IN /\ now = t0 + 1
          /\ tz = TzDhaka
          /\ faults = 0
          /\ subs = table
          /\ cursor = Nil
          /\ dpc = "idle"
          /\ lastCron = t0
          /\ run = [ returned |-> Range(page), enq |-> EnqueueLog(page, 1, Len(page), t0),
                     res |-> "done", owedAtStart |-> {}, rows |-> Len(page),
                     pagesBefore |-> {}, cursorAtStart |-> Nil, missed |-> {} ]
          /\ jobs = dispatchJobs({}, page, 1, Len(page), t0)
          /\ nextJob = 1
          /\ nextRef = 1
          /\ lastJob = [ q |-> "none", sub |-> Nil, res |-> "none", appended |-> 0,
                         requeued |-> FALSE, success |-> FALSE, period |-> "none",
                         charged |-> FALSE, attempt |-> 0, paidBefore |-> 0 ]
          /\ owed = {}
          /\ ledger = << >>
          /\ billing = << >>
          /\ popped = {}
          /\ lastDrain = DrainRecord(0, -1, -1, -1, "none")
          /\ drains = << >>
          /\ handed = {}
          /\ nextNotif = 1
          /\ acked = << >>
          /\ fallback = << >>
          /\ permFailed = {}
          /\ resent = {}
          /\ broker = [ connection |-> TRUE, channel |-> TRUE, live |-> TRUE ]
          /\ rmq = RmqStart

NextPeriod ==
  \/ GpProcess
  \/ JobFinish

SpecPeriod == InitPeriod /\ [][NextPeriod]_vars

(* the consumer alone on a list filled beforehand, by the workers and by   *)
(* another writer: outcomes of successful and failed charges and entries   *)
(* that are not JSON, one more than a drain takes at most (followed while  *)
(* Redis, the store and the broker answer every call)                      *)
InitParse ==
  /\ now = CronHourUTC
  /\ tz = TzDhaka
  /\ faults = MaxFaults
  /\ subs = [ i \in SubIds |-> Row(i, Profiles[1]) ]
  /\ cursor = Nil
  /\ dpc = "idle"
  /\ lastCron = CronHourUTC
  /\ run = [ returned |-> {}, enq |-> << >>, res |-> "none", owedAtStart |-> {}, rows |-> 0,
           pagesBefore |-> {}, cursorAtStart |-> Nil, missed |-> {} ]
  /\ jobs = {}
  /\ nextJob = 1
  /\ lastJob = [ q |-> "none", sub |-> Nil, res |-> "none", appended |-> 0,
                 requeued |-> FALSE, success |-> FALSE, period |-> "none",
                 charged |-> FALSE, attempt |-> 0, paidBefore |-> 0 ]
  /\ owed = {}
  /\ \E n \in 1..(MAX_BATCH_SIZE + 1),
        kind \in [1..(MAX_BATCH_SIZE + 1) -> {"malformed", "success", "failure"}] :
       /\ ledger = [ k \in 1..n |->
                       IF kind[k] = "malformed" THEN Malformed
                       ELSE LET i == ((k - 1) % NumSubs) + 1
                            IN ChargeResult([sub |-> i, data |-> subs[i]], k,
                                            kind[k] = "success") ]
       /\ nextRef = n + 1
  /\ billing = << >>
  /\ popped = {}
  /\ lastDrain = DrainRecord(0, -1, -1, -1, "none")
  /\ drains = << >>
  /\ handed = {}
  /\ nextNotif = 1
  /\ acked = << >>
  /\ fallback = << >>
  /\ permFailed = {}
  /\ resent = {}
  /\ broker = [ connection |-> TRUE, channel |-> TRUE, live |-> TRUE ]
  /\ rmq = RmqStart

NextParse ==
  \/ DrainTick
  \/ DrainLpop
  \/ DrainProcess

SpecParse == InitParse /\ [][NextParse]_vars

NextDrain ==
  \/ GpProcess
  \/ JobFinish
  \/ DrainTick
  \/ DrainLpop
  \/ DrainProcess

SpecDrain == InitDrain /\ [][NextDrain]_vars

(* the pipeline at rest: nothing queued, nothing to drain *)
Quiet ==
  /\ now = CronHourUTC
  /\ tz = TzDhaka
  /\ faults = MaxFaults
  /\ subs = [ i \in SubIds |-> Row(i, Profiles[1]) ]
  /\ cursor = Nil
  /\ dpc = "idle"
  /\ lastCron = CronHourUTC
  /\ run = [ returned |-> {}, enq |-> << >>, res |-> "none", owedAtStart |-> {}, rows |-> 0,
           pagesBefore |-> {}, cursorAtStart |-> Nil, missed |-> {} ]
  /\ jobs = {}
  /\ nextJob = 1
  /\ nextRef = 1
  /\ lastJob = [ q |-> "none", sub |-> Nil, res |-> "none", appended |-> 0,
                 requeued |-> FALSE, success |-> FALSE, period |-> "none",
                 charged |-> FALSE, attempt |-> 0, paidBefore |-> 0 ]
  /\ owed = {}
  /\ ledger = << >>
  /\ billing = << >>
  /\ popped = {}
  /\ lastDrain = DrainRecord(0, -1, -1, -1, "none")
  /\ drains = << >>
  /\ handed = {}
  /\ nextNotif = 1
  /\ acked = << >>
  /\ fallback = << >>
  /\ permFailed = {}
  /\ resent = {}

(* the broker connection on its own: onModuleInit has called connect, the  *)
(* connection comes and goes and the reconnect timers fire                 *)
InitBroker ==
  /\ Quiet
  /\ broker = [ connection |-> FALSE, channel |-> FALSE, live |-> FALSE ]
  /\ rmq = [RmqStart EXCEPT !.isConnecting = TRUE, !.connecting = 1, !.last = "connectStarted"]

NextBroker ==
  \/ connectionLost
  \/ connectCall
  \/ connectSettle
  \/ Elapse

SpecBroker == InitBroker /\ [][NextBroker]_vars

(* calls of publishMessage while the connection comes and goes *)
InitPublish ==
  /\ Quiet
  /\ broker \in BrokerStates
  /\ rmq = RmqStart

NextPublish ==
  \/ publishMessageStep
  \/ Elapse
  \/ BrokerDrop
  \/ connect

SpecPublish == InitPublish /\ [][NextPublish]_vars

TypeOK ==
  /\ now \in 0..MaxTime
  /\ faults \in 0..MaxFaults
  /\ dpc \in {"idle", "loop"}
  /\ cursor \in {Nil} \cup SubIds
  /\ \A j \in jobs : j.st \in {"delayed", "returned", "threw", "failed"}
  /\ \A k \in DOMAIN fallback : fallback[k] \in 0..(maxFallbackRetries + MaxFaults)
  /\ rmq.reconnectAttempts \in 0..maxReconnectAttempts
  /\ rmq.isConnecting \in BOOLEAN
  /\ rmq.drops \in 0..MaxDrops
  /\ rmq.pub.pc \in {"idle", "wait", "resolved", "raised"}
  /\ rmq.pub.retryCount \in 0..rmqRetryAttempts
  /\ \A k \in DOMAIN rmq.timers :
       rmq.timers[k].after \in 0..(reconnectDelay * maxReconnectAttempts)

(* ------------------------------- properties ---------------------------- *)
ClampedDelay(nba, t) == IF nba > t THEN nba - t ELSE 0

EnqueuesOf(r) == { k \in DOMAIN run.enq : run.enq[k].sub = r.subscription_id }

C2_AtMostOneInFlight ==
  \A i \in SubIds : \A q \in {RENEWAL_QUEUES.GP, RENEWAL_QUEUES.ROBI, RENEWAL_QUEUES.ROBI_MIFE} :
    Cardinality({ j \in jobs : j.sub = i /\ j.q = q /\ InFlight(j) }) <= 1

(* C3: when a worker handler returns normally it has appended exactly one  *)
(* ChargeOutcome to the ledger, or the job was skipped for missing config  *)
C3_OutcomeOrSkip ==
  /\ lastJob.res = "returned" => lastJob.appended = 1
  /\ lastJob.res = "skipped" =>
       lastJob.q = RENEWAL_QUEUES.ROBI /\ lastJob.appended = 0

RowsOf(ref) == { k \in DOMAIN billing : billing[k].payment_reference_id = ref }

(* C4: every ChargeOutcome popped from the ledger has exactly one          *)
(* BillingEvent row                                                        *)
C4_OneBillingEventPerOutcome ==
  \A ref \in popped : Cardinality(RowsOf(ref)) = 1

(* C5 as stated: every drain of N outcomes passes N entries to             *)
(* bulk_update, N rows to create_many and N notifications to the publisher *)
C5_DrainCounts ==
  lastDrain.res \in {"ok", "error"} =>
    /\ lastDrain.updates = lastDrain.n
    /\ lastDrain.events = lastDrain.n
    /\ lastDrain.notifs = lastDrain.n

(* C5 amended: bulk_update receives N entries; create_many, when it is     *)
(* reached (bulk_update did not raise), receives N rows; the notification  *)
(* batch, when it is reached (create_many did not raise), N notifications; *)
(* a drain in which neither raises passes N to all three                   *)
C5_DrainCountsWhenReached ==
  lastDrain.res \in {"ok", "error"} =>
    /\ lastDrain.updates = lastDrain.n
    /\ lastDrain.events \in {-1, lastDrain.n}
    /\ lastDrain.notifs \in {-1, lastDrain.n}
    /\ lastDrain.notifs = lastDrain.n => lastDrain.events = lastDrain.n
    /\ lastDrain.res = "ok" => lastDrain.notifs = lastDrain.n

(* a drain of two outcomes, one failed and one successful, that went       *)
(* through, and so passed two entries to each of the three steps           *)
C5_Witness ==
  /\ lastDrain.res = "ok"
  /\ lastDrain.n = MAX_BATCH_SIZE
  /\ lastDrain.notifs = MAX_BATCH_SIZE
  /\ \E k \in DOMAIN billing : billing[k].status = "FAILED"

InLedger(ref) == \E k \in DOMAIN ledger : ledger[k].ref = ref

FullyProcessed(ref) == RowsOf(ref) # {} /\ \E m \in handed : m.ref = ref

(* C6: a popped outcome that was not fully processed is back on the ledger *)
(* (the list renewal_status_report:dead has no writer in the source)       *)
C6_NoPoppedOutcomeLost ==
  \A ref \in popped : FullyProcessed(ref) \/ InLedger(ref)

(* C7: a notification handed to the publisher is acknowledged by the       *)
(* broker, held in the fallback KV, or was deleted from the fallback at    *)
(* the retry cap                                                           *)
C7_NoNotificationLost ==
  \A m \in handed :
    m.id \in Range(acked) \/ m.id \in DOMAIN fallback \/ m.id \in permFailed

(* C8: a fallback key disappears only in a step that publishes its message *)
(* with the broker's acknowledgement, or when its retry count is at the    *)
(* cap of 5                                                                *)
C8_FallbackRemoval ==
  [][ \A k \in DOMAIN fallback :
        k \notin DOMAIN fallback' =>
          \/ \E i \in (Len(acked) + 1)..Len(acked') : acked'[i] = k
          \/ fallback[k] >= maxFallbackRetries ]_vars

(* one key was deleted at the cap and another after a confirmed re-publish *)
C8_Witness ==
  /\ permFailed # {}
  /\ resent # {}

AddedJobs == { j \in jobs' : \A x \in jobs : x.q # j.q \/ x.jid # j.jid }

GpHandlerReturned ==
  /\ nextRef' = nextRef + 1
  /\ lastJob'.q = RENEWAL_QUEUES.GP
  /\ lastJob'.res = "returned"

(* C9: a GP charge that fails at local hour h enqueues exactly one new job *)
(* with the same payload and a delay of 8 hours iff h + 8 h is strictly    *)
(* before the next local midnight; a successful charge enqueues none       *)
C9_RequeuePolicy ==
  [][ GpHandlerReturned =>
        /\ Cardinality(AddedJobs) =
             IF ~lastJob'.success /\ LocalHour(now) + RequeueHours < HoursPerDay THEN 1 ELSE 0
        /\ \A j \in AddedJobs :
             /\ j.q = RENEWAL_QUEUES.GP
             /\ j.sub = lastJob'.sub
             /\ j.due = now + RequeueHours
             /\ \E x \in jobs : x.sub = j.sub /\ x.data = j.data /\ Deliverable(x, j.q) ]_vars

(* a re-queued job waits while a later GP charge has failed at 16:00 local *)
(* time or later and was not re-queued                                     *)
C9_Witness ==
  /\ \E j \in jobs : j.jid[1] = "auto" /\ j.st = "delayed"
  /\ lastJob.q = RENEWAL_QUEUES.GP
  /\ lastJob.res = "returned"
  /\ ~lastJob.success
  /\ ~lastJob.requeued
  /\ LocalHour(now) = HoursPerDay - RequeueHours

(* C10: a subscription whose job ended on day D unpaid and without a       *)
(* re-queue is enqueued again by the dispatch run of day D+1 (stated for   *)
(* behaviours without any environment fault)                               *)
C10_NextDayRedispatch ==
  (faults = 0 /\ run.res = "done") =>
    \A i \in run.owedAtStart : \E k \in DOMAIN run.enq : run.enq[k].sub = i

MaxId(S) == CHOOSE x \in S : \A y \in S : y <= x

ReturnedIds == { r.id : r \in run.returned }

(* C11: when find_renewable raises on page k the run ends with the error,  *)
(* the cursor is the last id of page k-1 (the cursor the run started with  *)
(* when k = 1), and the next run starts from that cursor and makes no      *)
(* enqueue call for a row of pages 1..k-1                                  *)
C11_CursorKeptOnFindError ==
  /\ run.res = "findError" =>
       /\ dpc = "idle"
       /\ cursor = IF ReturnedIds = {} THEN run.cursorAtStart ELSE MaxId(ReturnedIds)
  /\ run.pagesBefore # {} =>
       /\ run.cursorAtStart = MaxId(run.pagesBefore)
       /\ \A k \in DOMAIN run.enq : run.enq[k].sub \notin run.pagesBefore

(* the run after a run that failed on its second page has ended, and a row *)
(* of the first page is due again in the window of this run                *)
C11_Witness ==
  /\ run.res = "done"
  /\ run.pagesBefore # {}
  /\ \E i \in run.pagesBefore : Renewable(subs[i], now, Nil)

(* C12: the subscriptions due on day D that a failed run left without a    *)
(* job have all been enqueued when the next run has ended                  *)
C12_PartialDayResumed ==
  run.res = "done" =>
    \A i \in run.missed : \E k \in DOMAIN run.enq : run.enq[k].sub = i

(* C20: in a dispatch run each fetched page moves the cursor to a strictly  *)
(* larger id, no row is returned by two pages, a run that ends without a   *)
(* store or queue failure ends at an empty page with the cursor reset, and *)
(* every run that has started ends                                         *)
C20_RunTerminates ==
  /\ [][ dpc = "loop" =>
          /\ (dpc' = "loop" /\ run'.rows # run.rows) =>
                /\ cursor' \in SubIds
                /\ cursor' # cursor
                /\ Truthy(cursor) => cursor' > cursor
          /\ (dpc' = "idle" /\ faults' = faults) =>
                /\ run'.res = "done"
                /\ run'.rows = run.rows
                /\ cursor' = Nil ]_vars
  /\ [](run.rows = Cardinality(ReturnedIds))
  /\ (dpc = "loop") ~> (dpc = "idle")

(* a run of two pages has ended at the third, empty page *)
C20_Witness ==
  /\ run.res = "done"
  /\ run.rows = NumSubs
  /\ cursor = Nil
  /\ faults = MaxFaults

Running == { d \in DOMAIN drains : drains[d].pc # "done" }

(* C13: at most one invocation of handleResultQueue is in progress at any  *)
(* time                                                                    *)
C13_SingleDrain == Cardinality(Running) <= 1

NewlyPopped == popped' \ popped

(* C18: a step of a drain takes its entries from the head of the ledger    *)
(* and removes exactly those: the entries left keep their order, followed  *)
(* by what a worker appended in the step, and the length of the ledger     *)
(* falls by the number of entries popped                                   *)
C18_LedgerFifo ==
  [][ LET np == Cardinality(NewlyPopped)
          left == Len(ledger) - np
      IN /\ np <= Len(ledger)
         /\ NewlyPopped = { ledger[k].ref : k \in 1..np }
         /\ Len(ledger') >= left
         /\ SubSeq(ledger', 1, left) = SubSeq(ledger, np + 1, Len(ledger))
         /\ nextRef' = nextRef => Len(ledger') = left
         /\ \A d \in DOMAIN drains :
              Len(drains'[d].collected) > Len(drains[d].collected) =>
                /\ np = 1
                /\ drains'[d].collected = Append(drains[d].collected, ledger[1]) ]_vars

(* an invocation has popped the older of two entries and left the newer,   *)
(* and another invocation is collecting too                                *)
C18_Witness ==
  /\ Len(ledger) = 1
  /\ \E d \in DOMAIN drains :
       /\ Len(drains[d].collected) = 1
       /\ drains[d].collected[1].ref < ledger[1].ref
  /\ Cardinality(Running) = MaxDrains

(* C14: a subscription row changes only in a step that drains an outcome  *)
(* of that subscription_id, and the status written is ACTIVE for an        *)
(* outcome with success = true and SUSPENDED_PAYMENT_FAILED for one with   *)
(* success = false                                                         *)
C14_StatusTransitions ==
  [][ \A i \in SubIds :
        subs'[i] # subs[i] =>
          \E k \in DOMAIN ledger :
            /\ ledger[k].ref \in popped' \ popped
            /\ ledger[k].subscriptionId = i
            /\ subs'[i].status =
                 IF ledger[k].success THEN "ACTIVE" ELSE "SUSPENDED_PAYMENT_FAILED" ]_vars

(* one subscription was suspended after a failed charge and another was    *)
(* set ACTIVE after a successful one                                       *)
C14_Witness ==
  /\ \E i \in SubIds : subs[i].status = "SUSPENDED_PAYMENT_FAILED" /\ subs[i].failed_at # Nil
  /\ \E i \in SubIds : subs[i].status = "ACTIVE" /\ subs[i].succeed_at # Nil

SecondsPerDay == 86400

SecondsPerHour == 3600

(* C15: the next_billing_at a drain writes for an outcome, successful or   *)
(* failed, is the consume time plus billing_cycle_days x 86400 s, with     *)
(* billing_cycle_days read from the snapshot the outcome carries           *)
C15_NextBillingAt ==
  [][ \A i \in SubIds :
        subs'[i] # subs[i] =>
          \E k \in DOMAIN ledger :
            /\ ledger[k].ref \in popped' \ popped
            /\ ledger[k].subscriptionId = i
            /\ subs'[i].next_billing_at * SecondsPerHour =
                 now * SecondsPerHour + ledger[k].data.cycle * SecondsPerDay ]_vars

(* a failed charge of a 30-day plan and a successful charge have both been *)
(* consumed                                                                *)
C15_Witness ==
  /\ \E i \in SubIds :
       /\ subs[i].failed_at # Nil
       /\ subs[i].cycle > 1
       /\ subs[i].next_billing_at = subs[i].failed_at + subs[i].cycle * HoursPerDay
  /\ \E i \in SubIds :
       /\ subs[i].succeed_at # Nil
       /\ subs[i].next_billing_at = subs[i].succeed_at + subs[i].cycle * HoursPerDay

Publishes(id) == Cardinality({ k \in DOMAIN acked : acked[k] = id })

(* C16: a notification of a drained batch that the broker has not          *)
(* confirmed sits in the fallback KV, and one that has left the fallback   *)
(* KV was published, once (stated for behaviours in which Redis and the    *)
(* store answer every call)                                                *)
C16_BrokerDownRecovery ==
  faults = 0 =>
    \A m \in handed :
      /\ Publishes(m.id) <= 1
      /\ Publishes(m.id) = 0 <=> m.id \in DOMAIN fallback

(* C17: no worker handler ends with an exception, so the queue never      *)
(* marks a job failed                                                      *)
C17_NoWorkerException ==
  /\ lastJob.res # "threw"
  /\ \A j \in jobs : j.st \notin {"threw", "failed"}

PeriodTable ==
  (1 :> "P1D") @@ (7 :> "P1W") @@ (30 :> "P1M") @@ (180 :> "P6M") @@ (365 :> "P1Y")

(* C19: the subscription_period a GP charge request carries is the table's *)
(* value for billing_cycle_days 1, 7, 30, 180 and 365 and P1D for every    *)
(* other value                                                             *)
C19_SubscriptionPeriod ==
  lastJob.q = RENEWAL_QUEUES.GP =>
    LET days == subs[lastJob.sub].cycle
    IN /\ lastJob.period \in { PeriodTable[d] : d \in DOMAIN PeriodTable }
       /\ lastJob.period = IF days \in DOMAIN PeriodTable THEN PeriodTable[days] ELSE "P1D"

(* a GP charge for a plan of MaxCycleDays days, a value outside the table,  *)
(* went out with the default period                                       *)
C19_Witness ==
  /\ lastJob.q = RENEWAL_QUEUES.GP
  /\ subs[lastJob.sub].cycle = MaxCycleDays
  /\ lastJob.period = "P1D"

(* C21: a job on an operator queue is delivered to a worker of that queue  *)
(* once its delay has elapsed: while the workers still take jobs, no job   *)
(* is left waiting an hour after it fell due                               *)
C21_QueuedJobsDelivered ==
  \A j \in jobs : (j.st = "delayed" /\ j.due < now) => nextRef > MaxCharges

KnownOperators == {"GP", "ROBI", "ROBI_MIFE"}

C23_RobiSkipWithoutConfig ==
  [][ (/\ nextRef' = nextRef + 1
       /\ lastJob'.q = RENEWAL_QUEUES.ROBI
       /\ ~subs[lastJob'.sub].hasConfig) =>
        /\ lastJob'.res = "skipped"
        /\ ~lastJob'.charged
        /\ ledger' = ledger
        /\ AddedJobs = {}
        /\ faults' = faults
        /\ \E j \in jobs :
             /\ j.sub = lastJob'.sub
             /\ Deliverable(j, RENEWAL_QUEUES.ROBI)
             /\ jobs' = (jobs \ {j}) \cup {[j EXCEPT !.st = "returned"]} ]_vars

(* the job of a ROBI subscription without config was skipped and the queue *)
(* has completed and removed it                                            *)
C23_Witness ==
  /\ lastJob.res = "skipped"
  /\ lastJob.q = RENEWAL_QUEUES.ROBI
  /\ ~subs[lastJob.sub].hasConfig
  /\ \A j \in jobs : j.sub # lastJob.sub

NewBillingRows == (Len(billing) + 1)..Len(billing')

(* C24: a step that inserts a BillingEvent row has applied the update of   *)
(* that row's subscription (its payment timestamp is the consume time), a   *)
(* step that hands a notification to the publisher has inserted the        *)
(* BillingEvent row of the same outcome, and a drain that ends in a store  *)
(* error inserts no row and sends no notification                          *)
C24_DrainStepOrder ==
  [][ /\ \A k \in NewBillingRows :
           LET row == subs'[billing'[k].subscription_id]
           IN row.succeed_at = now \/ row.failed_at = now
      /\ \A m \in handed' \ handed :
           \E k \in NewBillingRows : billing'[k].payment_reference_id = m.ref
      /\ (popped' # popped /\ lastDrain'.res = "error") =>
           /\ billing' = billing
           /\ handed' = handed
           /\ lastDrain'.events = -1 => subs' = subs ]_vars

(* a drain went through all three steps after an earlier drain had applied *)
(* its update and then failed in create_many                               *)
C24_Witness ==
  /\ lastDrain.res = "ok"
  /\ billing # << >>
  /\ \E m \in handed : RowsOf(m.ref) # {}
  /\ \E i \in SubIds :
       /\ subs[i].succeed_at # Nil \/ subs[i].failed_at # Nil
       /\ \A k \in DOMAIN billing : billing[k].subscription_id # i

(* C25: an invocation that processes what it collected passes every entry  *)
(* that parses to bulk_update, create_many and the notification batch,     *)
(* whatever unparseable entries it collected with them                     *)
C25_MalformedSkipped ==
  [][ \A d \in DOMAIN drains :
        (drains[d].pc = "process" /\ drains'[d].pc = "done") =>
          LET good == SelectSeq(drains[d].collected, Parses)
          IN /\ lastDrain' = DrainRecord(Len(good), Len(good), Len(good), Len(good), "ok")
             /\ \A k \in DOMAIN good :
                  /\ LET row == subs'[good[k].subscriptionId]
                     IN row.succeed_at = now \/ row.failed_at = now
                  /\ \E r \in NewBillingRows :
                       /\ billing'[r].payment_reference_id = good[k].ref
                       /\ billing'[r].status = IF good[k].success THEN "SUCCESS" ELSE "FAILED"
                  /\ \E m \in handed' \ handed : m.ref = good[k].ref ]_vars

(* an invocation that collected an unparseable entry before a parseable    *)
(* one has ended, and the outcome has its BillingEvent row and its         *)
(* notification                                                            *)
C25_Witness ==
  \E d \in DOMAIN drains :
    /\ drains[d].pc = "done"
    /\ Len(drains[d].collected) = MAX_BATCH_SIZE
    /\ ~Parses(drains[d].collected[1])
    /\ Parses(drains[d].collected[MAX_BATCH_SIZE])
    /\ RowsOf(drains[d].collected[MAX_BATCH_SIZE].ref) # {}
    /\ \E m \in handed : m.ref = drains[d].collected[MAX_BATCH_SIZE].ref

(* C26: an invocation collects at most MAX_BATCH_SIZE entries, one per     *)
(* pop; a pop on the empty list ends the collecting; an invocation that    *)
(* collected nothing returns without touching the store or the publisher   *)
C26_DrainCap ==
  /\ [](\A d \in DOMAIN drains : Len(drains[d].collected) <= MAX_BATCH_SIZE)
  /\ [][ \A d \in DOMAIN drains :
           /\ drains[d].pc # "pop" => drains'[d].collected = drains[d].collected
           /\ (drains[d].pc = "pop" /\ drains'[d] # drains[d]) =>
                IF ledger = << >>
                THEN /\ drains'[d].collected = drains[d].collected
                     /\ drains'[d].pc # "pop"
                     /\ ledger' = ledger
                ELSE /\ drains'[d].collected = Append(drains[d].collected, ledger[1])
                     /\ ledger' = Tail(ledger)
                     /\ drains'[d].pc = "pop" <=> Len(drains'[d].collected) < MAX_BATCH_SIZE
           /\ (drains[d].pc = "pop" /\ drains'[d].pc = "done") =>
                /\ drains[d].collected = << >>
                /\ UNCHANGED << subs, billing, handed, acked, fallback >> ]_vars

(* an invocation stopped collecting at the cap while the list still holds  *)
(* an entry                                                                *)
C26_Witness ==
  /\ ledger # << >>
  /\ \E d \in DOMAIN drains :
       /\ drains[d].pc = "process"
       /\ Len(drains[d].collected) = MAX_BATCH_SIZE

DrainedNow == { k \in DOMAIN ledger : ledger[k].ref \in popped' \ popped }

OutcomesOf(i) == { k \in DrainedNow : ledger[k].subscriptionId = i }

(* C27: when a drained batch holds several outcomes of one subscription,   *)
(* the status, the payment timestamps and next_billing_at stored by        *)
(* bulk_update are those of the last of them in ledger order               *)
C27_LastWriterWins ==
  [][ \A i \in SubIds :
        (OutcomesOf(i) # {} /\ lastDrain'.res = "ok") =>
          LET last == ledger[MaxId(OutcomesOf(i))]
          IN /\ subs'[i].status =
                  IF last.success THEN "ACTIVE" ELSE "SUSPENDED_PAYMENT_FAILED"
             /\ subs'[i].succeed_at = IF last.success THEN now ELSE Nil
             /\ subs'[i].failed_at = IF last.success THEN Nil ELSE now
             /\ subs'[i].next_billing_at = nextBillingAt(now, last.data.cycle) ]_vars

Applied(row, o) ==
  /\ row.status = IF o.success THEN "ACTIVE" ELSE "SUSPENDED_PAYMENT_FAILED"
  /\ row.succeed_at = IF o.success THEN now ELSE Nil
  /\ row.failed_at = IF o.success THEN Nil ELSE now

(* C28: a drain either leaves the subscriptions table as it was or applies *)
(* every entry of its batch, with succeed_at = now and failed_at = null    *)
(* for a success and the reverse for a failure; at all times a row has at  *)
(* most one of the two timestamps, and the one it has agrees with its      *)
(* status                                                                  *)
C28_BulkUpdateAtomic ==
  /\ [][ DrainedNow # {} =>
           \/ subs' = subs /\ lastDrain'.events = -1
           \/ /\ \A k \in DrainedNow : Applied(subs'[ledger[k].subscriptionId], ledger[k])
              /\ \A i \in SubIds : OutcomesOf(i) = {} => subs'[i] = subs[i] ]_vars
  /\ [](\A i \in SubIds :
          /\ subs[i].succeed_at = Nil \/ subs[i].failed_at = Nil
          /\ subs[i].succeed_at # Nil => subs[i].status = "ACTIVE"
          /\ subs[i].failed_at # Nil => subs[i].status = "SUSPENDED_PAYMENT_FAILED")

(* a subscription whose charge had failed was charged again with success:  *)
(* its row carries the success timestamp and no failure timestamp          *)
C28_Witness ==
  \E i \in SubIds :
    /\ \E k \in DOMAIN billing :
         billing[k].subscription_id = i /\ billing[k].status = "FAILED"
    /\ subs[i].succeed_at # Nil
    /\ subs[i].failed_at = Nil
    /\ subs[i].status = "ACTIVE"

(* a step of the retrier: the list, the consumer and the connection are    *)
(* left alone                                                              *)
RetrierStep ==
  /\ ledger' = ledger
  /\ lastDrain' = lastDrain
  /\ broker' = broker

NewlyAcked(k) == Cardinality({ i \in (Len(acked) + 1)..Len(acked') : acked'[i] = k })

(* C29: while the broker is not connected, a tick of the retrier publishes *)
(* nothing, deletes no fallback key and changes no retry_count             *)
C29_OutageLeavesFallback ==
  [][ (~broker.live /\ RetrierStep) =>
        /\ fallback' = fallback
        /\ acked' = acked
        /\ permFailed' = permFailed ]_vars

(* C30: in a tick of the retrier with the broker connected, a key at the   *)
(* cap of 5 is deleted without a publish, and any other key is published   *)
(* once and deleted, or stays with its retry_count incremented by 1; the   *)
(* retry_count never exceeds 5                                             *)
C30_RetrierPolicy ==
  /\ [][ (isConnected(broker) /\ RetrierStep) =>
           \A k \in DOMAIN fallback :
             IF fallback[k] >= maxFallbackRetries
             THEN k \notin DOMAIN fallback' /\ NewlyAcked(k) = 0
             ELSE \/ NewlyAcked(k) = 1 /\ k \notin DOMAIN fallback'
                  \/ /\ NewlyAcked(k) = 0
                     /\ k \in DOMAIN fallback'
                     /\ fallback'[k] = fallback[k] + 1 ]_vars
  /\ [](\A k \in DOMAIN fallback : fallback[k] <= maxFallbackRetries)

(* C31: isConnected() is true exactly while a live connection with its     *)
(* confirm channel exists: it is false whenever the connection has gone    *)
(* down and has not been set up again                                      *)
C31_IsConnectedTracksConnection == isConnected(broker) <=> broker.live

(* timers set by a step: the entries appended to rmq.timers *)
ScheduledNow == (Len(rmq.timers) + 1)..Len(rmq'.timers)

ConnectSucceeds == rmq'.connecting < rmq.connecting /\ rmq'.last = "connected"

(* C32: the n-th reconnect attempt in a row is scheduled n * 5 s after the *)
(* failure that triggers it, a successful connect resets the counter to 0, *)
(* and after 10 failed attempts in a row no reconnect is scheduled         *)
C32_LinearBackoff ==
  /\ [][ \A k \in ScheduledNow :
           /\ rmq'.timers[k].n = rmq.reconnectAttempts + (k - Len(rmq.timers))
           /\ rmq'.timers[k].n <= maxReconnectAttempts
           /\ rmq'.timers[k].after = 5 * rmq'.timers[k].n ]_vars
  /\ [][ ConnectSucceeds => rmq'.reconnectAttempts = 0 ]_vars
  /\ [][ rmq.failed >= maxReconnectAttempts => ScheduledNow = {} ]_vars

(* ten attempts in a row have failed, the counter stands at 10 and nothing *)
(* is scheduled any more                                                   *)
C32_Witness ==
  /\ rmq.failed >= maxReconnectAttempts
  /\ rmq.reconnectAttempts = maxReconnectAttempts
  /\ rmq.last = "connectFailed"
  /\ rmq.timers = << >>
  /\ rmq.connecting = 0

(* C33: at most one connect attempt is in progress at any time, and the    *)
(* isConnecting flag is set exactly while one is: a call of connect during *)
(* an attempt returns at the guard, and the flag is cleared when the       *)
(* attempt succeeds and when it fails                                      *)
C33_ConnectSerialized ==
  /\ rmq.connecting <= 1
  /\ rmq.isConnecting <=> rmq.connecting = 1
  /\ rmq.last \in {"connected", "connectFailed", "channelFailed"} => ~rmq.isConnecting

(* a timer fired while an attempt was in progress: its call of connect     *)
(* returned at the guard and the attempt goes on                           *)
C33_Witness ==
  /\ rmq.last = "connectSkipped"
  /\ rmq.connecting = 1
  /\ rmq.isConnecting

(* C34: publishMessage retries a transport error (no channel, an error on  *)
(* publish, a negative acknowledgement) up to 3 times, raises only when    *)
(* the retries are used up, and makes at most 4 attempts per call          *)
C34_PublishRetries ==
  /\ Len(rmq.pub.passes) <= rmqRetryAttempts + 1
  /\ rmq.pub.pc = "raised" => Len(rmq.pub.passes) = rmqRetryAttempts + 1

(* a worker handler runs in this step *)
HandlerStep == nextRef' = nextRef + 1

(* the jobs delivered to a handler in this step *)
Delivered ==
  { j \in jobs : /\ j.st = "delayed"
                 /\ \E x \in jobs' : x.q = j.q /\ x.jid = j.jid /\ x.st \in {"returned", "threw"} }

GpHandlerStep == HandlerStep /\ lastJob'.q = RENEWAL_QUEUES.GP

(* C36: a dispatched GP job leads to at most 3 charge attempts, all within *)
(* one local day, and its chain of re-queues ends with a success or when   *)
(* now + 8 h is not before the next local midnight                         *)
C36_RequeueChainBounded ==
  /\ [](\A j \in jobs : j.q = RENEWAL_QUEUES.GP => j.attempt <= 3)
  /\ [][ GpHandlerStep => \A j \in AddedJobs : j.due < NextMidnight(now) ]_vars
  /\ [][ (GpHandlerStep /\ AddedJobs = {}) =>
           lastJob'.success \/ ~isBeforeMidnight(now) ]_vars

(* the invocations of the consumer that hold the outcome with reference    *)
(* ref, the places it has in what they collected and in the ledger         *)
HoldersOf(ref) ==
  { d \in DOMAIN drains :
      \E k \in DOMAIN drains[d].collected :
        Parses(drains[d].collected[k]) /\ drains[d].collected[k].ref = ref }

PlacesOf(ref) ==
  { << d, k >> \in (DOMAIN drains) \X (1..MAX_BATCH_SIZE) :
      /\ k \in DOMAIN drains[d].collected
      /\ Parses(drains[d].collected[k])
      /\ drains[d].collected[k].ref = ref }
  \cup { << 0, k >> : k \in { x \in DOMAIN ledger : Parses(ledger[x]) /\ ledger[x].ref = ref } }

(* C37: with invocations of the consumer that overlap, every ledger entry  *)
(* is popped by exactly one of them, and no outcome gives two BillingEvent  *)
(* rows or two notifications                                               *)
C37_PoppedByOneDrain ==
  \A ref \in 1..(nextRef - 1) :
    /\ Cardinality(PlacesOf(ref)) <= 1
    /\ ref \in popped => Cardinality(HoldersOf(ref)) = 1
    /\ Cardinality({ k \in DOMAIN billing : billing[k].payment_reference_id = ref }) <= 1
    /\ Cardinality({ m \in handed : m.ref = ref }) <= 1

(* two invocations that overlapped have each popped one of two outcomes,   *)
(* and both have processed theirs                                          *)
C37_Witness ==
  /\ Len(drains) = 2
  /\ \A d \in DOMAIN drains : Len(drains[d].collected) = 1 /\ drains[d].pc = "done"
  /\ drains[1].collected[1].ref # drains[2].collected[1].ref
  /\ Len(billing) = 2
  /\ Cardinality(handed) = 2

(* C38: a cursor left over from a failed run makes no later run skip work: *)
(* a run that ends at the empty page has made an enqueue call for every    *)
(* subscription due in its own day window, the ids up to the leftover      *)
(* cursor included                                                         *)
C38_LeftoverCursorHarmless ==
  [][ (dpc = "loop" /\ dpc' = "idle" /\ run'.res = "done") =>
        NotEnqueued(subs', run'.enq, lastCron) = {} ]_vars

(* the notifications passed to sendNotificationsBatch in this step *)
NewlyHanded == handed' \ handed

(* C39: when sendNotificationsBatch has returned, every notification it    *)
(* was given is acknowledged by the broker or written to the fallback KV,  *)
(* and the call does not raise to the consumer                             *)
C39_BatchAckedOrStored ==
  [][ NewlyHanded # {} =>
        /\ \A m \in NewlyHanded : m.id \in Range(acked') \/ m.id \in DOMAIN fallback'
        /\ lastDrain'.res = "ok" ]_vars

(* a connection goes down in this step *)
DropStep == rmq'.drops = rmq.drops + 1

(* C40: after one drop that emits both 'error' and 'close', reconnection   *)
(* counts one attempt and schedules one connect, and no connection is      *)
(* opened while a live one exists                                          *)
C40_OneReconnectPerDrop ==
  /\ [][ DropStep =>
           /\ rmq'.reconnectAttempts <= rmq.reconnectAttempts + 1
           /\ Cardinality(ScheduledNow) <= 1 ]_vars
  /\ [][ ConnectSucceeds => ~broker.live /\ rmq.orphans = 0 ]_vars

====
